---- MODULE Spec2Model ----
(***************************************************************************)
(* Model of xcp_dumper.py: in-place decryption of an XCP container        *)
(* (header, folder table, file-entry table with ordinal renaming, folder  *)
(* data regions), hand-over to the cabinet extractor and reassembly of    *)
(* the extracted members into one LIVE package.                           *)
(*                                                                         *)
(* Files are sequences of bytes; the byte at offset o of a file f is      *)
(* f[o + 1].  XeCrypt.py and StreamIO.py are imported by the script but   *)
(* are separate modules: the stream cipher is modelled as an XOR with a   *)
(* keystream that is a function of (session key, position), the stream   *)
(* as a Python file object opened "r+b" (short reads at end of file).     *)
(***************************************************************************)
EXTENDS Integers, Sequences, FiniteSets, TLC

(* ------------------------------ bounds -------------------------------- *)
MaxFolders == 2
MaxFiles == 2
MaxNameLen == 4
MaxMemberLen == 3
NumKeys == 2
DataLen == 2

(* ------------------------- program constants -------------------------- *)
BUFF_SIZE == 4096
XENON_DATA_SIZE == 28
SizeofCabFolder == 8
SizeofCabEntry == 16
SizeofRc4ShaHeader == 28
CksmSize == 20
ConfounderSize == 8
HdrStructOff == 96
HdrDataSize == 96
FolderStructOff == 40
FolderTableOff == 384
FileStructOff == 68
OrdinalBack == 4
OrdinalWidth == 3

AcceptedMagics == {1297302342, 1178817357}
LiveTag == <<76, 73, 86, 69>>

(* ------------------------------ helpers ------------------------------- *)
Min(a, b) == IF a < b THEN a ELSE b
Max(a, b) == IF a > b THEN a ELSE b

RECURSIVE Xor(_, _)
Xor(a, b) ==
    IF a = 0 THEN b
    ELSE IF b = 0 THEN a
    ELSE (((a % 2) + (b % 2)) % 2) + 2 * Xor(a \div 2, b \div 2)

RECURSIVE SumSeq(_)
SumSeq(s) == IF s = <<>> THEN 0 ELSE Head(s) + SumSeq(Tail(s))

RECURSIVE Concat(_)
Concat(ss) == IF ss = <<>> THEN <<>> ELSE Head(ss) \o Concat(Tail(ss))

(* little-endian c_dword / c_word at offset o of a byte sequence *)
U32(b, o) == b[o + 1] + 256 * b[o + 2] + 65536 * b[o + 3] + 16777216 * b[o + 4]
U16(b, o) == b[o + 1] + 256 * b[o + 2]
LEByte(v, k) == (v \div (IF k = 0 THEN 1 ELSE IF k = 1 THEN 256
                         ELSE IF k = 2 THEN 65536 ELSE 16777216)) % 256

(* --------------------------- XeCrypt (cipher) -------------------------- *)
(* XeCryptHmacSha(key, cksm): the session key, a function of both.        *)
XeCryptHmacSha(key, cksm) == (key * 17 + SumSeq(cksm)) % 64

(* keystream byte at position pos of the RC4 stream of a session key      *)
KeyStream(session, pos) == (session * 11 + pos * 5 + ((session * pos) % 7) + 3) % 128

(* cipher.decrypt(data) with the cipher at keystream position pos         *)
Rc4Decrypt(session, pos, data) ==
    [k \in 1..Len(data) |-> Xor(data[k], KeyStream(session, pos + k - 1))]

(* ------------------------------ StreamIO ------------------------------ *)
(* read(n) at offset o: a short read at end of file, everything up to the *)
(* end for n = -1                                                          *)
ReadAt(buf, o, n) ==
    LET avail == Max(0, Len(buf) - o)
        cnt == IF n < 0 THEN avail ELSE Min(n, avail)
    IN  SubSeq(buf, o + 1, o + cnt)

(* write(data) at offset o, growing the file when it ends past the end    *)
WriteAt(buf, o, data) ==
    IF data = <<>> THEN buf
    ELSE IF o <= Len(buf)
    THEN SubSeq(buf, 1, o) \o data \o SubSeq(buf, o + Len(data) + 1, Len(buf))
    ELSE buf \o [k \in 1..(o - Len(buf)) |-> 0] \o data

(* whether an access of n bytes at offset o stays inside the file         *)
InRange(buf, o, n) == o >= 0 /\ n >= 0 /\ o + n <= Len(buf)

(* read_struct(RC4_SHA_HEADER) at offset o: the cksm field                *)
ReadCksm(buf, o) == SubSeq(ReadAt(buf, o, SizeofRc4ShaHeader), 1, CksmSize)

(* --------------------- containers given as input ---------------------- *)
(* A container is described by its folder count nf, the lengths nl of its *)
(* file names and a shape: "ok" is well formed, the others carry one      *)
(* descriptor field that points outside the file, or end inside the key   *)
(* record of the header.                                                   *)
Shapes == {"ok", "off_files_past_end", "unterminated", "folders_descending",
           "folder_past_end", "cnt_folders_big", "header_record_cut"}

FolderStride == SizeofCabFolder + XENON_DATA_SIZE
TableOff(c) == FolderTableOff + c.nf * FolderStride
EntryLen(c, j) == SizeofCabEntry + c.nl[j] + 1
TableLen(c) == SumSeq([j \in 1..Len(c.nl) |-> EntryLen(c, j)])
DataOff(c) == TableOff(c) + TableLen(c)
FileLen(c) == IF c.shape = "unterminated" THEN DataOff(c) - 1
              ELSE IF c.shape = "header_record_cut" THEN HdrStructOff + CksmSize
              ELSE DataOff(c) + c.nf * DataLen

(* header fields as stored *)
FieldOffFiles(c) == IF c.shape = "off_files_past_end" THEN FileLen(c) ELSE TableOff(c)
FieldCntFolders(c) == IF c.shape = "cnt_folders_big" THEN c.nf + 20 ELSE c.nf
FieldFolderStart(c, i) ==
    CASE c.shape = "folders_descending" -> DataOff(c) + (c.nf - 1 - i) * DataLen
      [] c.shape = "folder_past_end" -> FileLen(c) + 2 + i * DataLen
      [] c.shape = "unterminated" -> FileLen(c)
      [] OTHER -> DataOff(c) + i * DataLen

(* the cksm byte of the key records: header 1, folder table 2, file table *)
(* 3, folder i data 4 + i                                                  *)
RecordByte(r, tag) == IF r < CksmSize THEN tag ELSE 0

(* the plaintext byte at offset o *)
PlainAt(c, o) ==
    CASE o < 4 -> <<77, 83, 67, 70>>[o + 1]
      [] o >= 16 /\ o < 20 -> LEByte(FieldOffFiles(c), o - 16)
      [] o >= 26 /\ o < 28 -> LEByte(FieldCntFolders(c), o - 26)
      [] o >= 28 /\ o < 30 -> LEByte(Len(c.nl), o - 28)
      [] o >= FolderStructOff /\ o < FolderStructOff + SizeofRc4ShaHeader ->
            RecordByte(o - FolderStructOff, 2)
      [] o >= FileStructOff /\ o < FileStructOff + SizeofRc4ShaHeader ->
            RecordByte(o - FileStructOff, 3)
      [] o >= HdrStructOff /\ o < HdrStructOff + SizeofRc4ShaHeader ->
            RecordByte(o - HdrStructOff, 1)
      [] OTHER -> 0

(* folder descriptor i (0-based) with the key record that follows it *)
FolderPlain(c, i) ==
    [r \in 1..4 |-> LEByte(FieldFolderStart(c, i), r - 1)] \o <<0, 0, 0, 0>>
        \o [r \in 1..XENON_DATA_SIZE |-> RecordByte(r - 1, 4 + i)]

(* table entry j: fixed header, name, terminator *)
EntryPlain(c, j) ==
    [r \in 1..SizeofCabEntry |-> 99 + r] \o [r \in 1..c.nl[j] |-> 96 + r] \o <<0>>

DataPlain(c, i) == [r \in 1..DataLen |-> 9 + i]

Plain(c) ==
    [k \in 1..FolderTableOff |-> PlainAt(c, k - 1)]
        \o Concat([i \in 1..c.nf |-> FolderPlain(c, i - 1)])
        \o Concat([j \in 1..Len(c.nl) |-> EntryPlain(c, j)])
        \o Concat([i \in 1..c.nf |-> DataPlain(c, i - 1)])

(* a region of the plaintext under the keystream of the key record at rec *)
Sealed(P, k, rec, o, n) ==
    Rc4Decrypt(XeCryptHmacSha(k, ReadCksm(P, rec)), ConfounderSize, ReadAt(P, o, n))

(* the container as distributed: every region encrypted under key k,      *)
(* cut to its length                                                       *)
Container(c, k) ==
    LET P == Plain(c)
        whole == Sealed(P, k, HdrStructOff, 0, HdrDataSize)
                   \o ReadAt(P, HdrDataSize, FolderTableOff - HdrDataSize)
                   \o Sealed(P, k, FolderStructOff, FolderTableOff, c.nf * FolderStride)
                   \o Sealed(P, k, FileStructOff, TableOff(c), TableLen(c))
                   \o Concat([i \in 1..c.nf |->
                         Sealed(P, k, FolderTableOff + (i - 1) * FolderStride + SizeofCabFolder,
                                DataOff(c) + (i - 1) * DataLen, DataLen)])
    IN  SubSeq(whole, 1, FileLen(c))

Configs ==
    { c \in [nf : 0..MaxFolders, nl : UNION {[1..n -> 0..MaxNameLen] : n \in 0..MaxFiles},
             shape : Shapes] :
        /\ c.shape \in {"unterminated", "off_files_past_end"} => Len(c.nl) >= 1
        /\ c.shape = "folders_descending" => c.nf >= 2
        /\ c.shape = "folder_past_end" => c.nf >= 1
        /\ c.shape = "header_record_cut" => (c.nf = 0 /\ c.nl = <<>>)
        /\ c.shape # "ok" => \A j, k \in 1..Len(c.nl) : c.nl[j] = c.nl[k] }

(* ------------------------- pure parts of main ------------------------- *)
(* str(i) as ASCII digits, and s.zfill(w)                                  *)
RECURSIVE Str(_)
Str(n) == IF n < 10 THEN <<48 + n>> ELSE Str(n \div 10) \o <<48 + (n % 10)>>
Zfill(s, w) == IF Len(s) >= w THEN s ELSE [k \in 1..(w - Len(s)) |-> 48] \o s

(* str(i).zfill(3).encode("UTF8") *)
OrdinalName(n) == Zfill(Str(n), OrdinalWidth)

(* the magic test of the assert *)
MagicAccepted_Any(m) == TRUE
MagicAccepted(m) == m \in AcceptedMagics

(* the condition of the filename loop: while byt != 0 or idx == 0 *)
ScanContinues_TwoAtLeast(b, n) == b # 0 \/ n <= 1
ScanContinues(b, n) == b # 0 \/ n = 0

(* keystream position of a freshly derived cipher, once the confounder    *)
(* has been decrypted                                                      *)
PosAfterConfounder == 0 + ConfounderSize

(* CAB_HEADER.from_buffer_copy(cab_hdr_data): the fields main uses         *)
ParseHeader(d) ==
    [magic |-> U32(d, 0), off_files |-> U32(d, 16),
     cnt_folders |-> U16(d, 26), cnt_files |-> U16(d, 28)]

(* folder_size = cnt_folders * (sizeof(CAB_FOLDER) + XENON_DATA_SIZE)      *)
FolderTableSize(n) == n * (SizeofCabFolder + XENON_DATA_SIZE)

(* size of the data region of folder k (0-based) of fs, in a file of n    *)
(* bytes                                                                   *)
FolderSize(fs, k, n) ==
    IF k + 1 = Len(fs) THEN n - fs[k + 1] ELSE fs[k + 2] - fs[k + 1]

(* lines 146-149: the filename cipher, derived from the key record at     *)
(* 0x44, after it has decrypted the confounder                             *)
FilenameCipherNew_NoConfounder(buf, k) ==
    [session |-> XeCryptHmacSha(k, ReadCksm(buf, FileStructOff)), pos |-> 0]
FilenameCipherNew(buf, k) ==
    [session |-> XeCryptHmacSha(k, ReadCksm(buf, FileStructOff)), pos |-> PosAfterConfounder]

(* stream_decrypt_with_struct: what it raises, and the file it leaves     *)
StreamDecryptRaises(buf, struct_offset, size) ==
    Len(ReadAt(buf, struct_offset, SizeofRc4ShaHeader)) < SizeofRc4ShaHeader \/ size < -1

(* xcp.offset when stream_decrypt_with_struct returns: set to the key      *)
(* record (line 90), advanced by the record read (line 91), and put back  *)
(* there by perform_function_at (line 100)                                 *)
OffsetAfterStruct(buf, struct_offset) ==
    struct_offset + Len(ReadAt(buf, struct_offset, SizeofRc4ShaHeader))

stream_decrypt_with_struct(buf, k, struct_offset, data_offset, size) ==
    LET session == XeCryptHmacSha(k, ReadCksm(buf, struct_offset))
    IN  WriteAt(buf, data_offset,
                Rc4Decrypt(session, PosAfterConfounder, ReadAt(buf, data_offset, size)))

(* fw.write(buff) for every BUFF_SIZE chunk of a member                    *)
RECURSIVE AppendChunks(_, _)
AppendChunks(w, data) ==
    IF data = <<>> THEN w
    ELSE LET n == Min(BUFF_SIZE, Len(data))
         IN  AppendChunks(w \o SubSeq(data, 1, n), SubSeq(data, n + 1, Len(data)))

(* the order in which the merge loop visits the listing of the cache      *)
(* directory                                                               *)
MergeOrder(l) == l

(* ------------------------------- state -------------------------------- *)
VARIABLES
    pc,             \* position in main
    failure,        \* the exception that ended the run, "none" otherwise
    key,            \* args.key
    no_backup,      \* args.no_backup
    orig,           \* the bytes of the input file when main started
    input,          \* the file at args.input: [exists, data]
    bak,            \* the .bak file next to it
    tmp_cab,        \* work_dir / tmp.cab
    offset,         \* xcp.offset
    cab_hdr_struct, \* the parsed header
    cipher,         \* the filename cipher: [session, pos]
    i,              \* loop index of the entry loop and of the folder loop
    idx,
    byt,
    folders,        \* off_cab_start of the parsed folders
    cache,          \* extracted members by ordinal
    listing,        \* iterdir() of the cache directory: ordinals in listing order
    done,           \* number of listed members merged
    fw,             \* the merged output stream
    out,            \* the package next to the input
    tbl_log,        \* <<offset, keystream position>> of each byte the filename cipher decrypted
    entries,        \* [start, end] offsets of the entries traversed
    regions,        \* [start, size] of the folder regions computed
    outside         \* an access outside [0, length) was attempted

vars == <<pc, failure, key, no_backup, orig, input, bak, tmp_cab, offset,
          cab_hdr_struct, cipher, i, idx, byt, folders, cache, listing, done,
          fw, out, tbl_log, entries, regions, outside>>

Absent == [exists |-> FALSE, data |-> <<>>]
File(d) == [exists |-> TRUE, data |-> d]
NoHeader == [magic |-> 0, off_files |-> 0, cnt_folders |-> 0, cnt_files |-> 0]

parse_vars == <<offset, cab_hdr_struct, cipher, i, idx, byt, folders>>
merge_vars == <<cache, listing, done, fw, out>>
ghost_vars == <<tbl_log, entries, regions>>
arg_vars == <<key, no_backup, orig>>

Init ==
    \E c \in Configs, k \in 1..NumKeys, nb \in BOOLEAN :
        /\ pc = "backup"
        /\ failure = "none"
        /\ key = k
        /\ no_backup = nb
        /\ orig = Container(c, 1)
        /\ input = File(orig)
        /\ bak = Absent
        /\ tmp_cab = Absent
        /\ offset = 0
        /\ cab_hdr_struct = NoHeader
        /\ cipher = [session |-> 0, pos |-> 0]
        /\ i = 0
        /\ idx = 0
        /\ byt = 0
        /\ folders = <<>>
        /\ cache = <<>>
        /\ listing = <<>>
        /\ done = 0
        /\ fw = <<>>
        /\ out = Absent
        /\ tbl_log = <<>>
        /\ entries = <<>>
        /\ regions = <<>>
        /\ outside = FALSE

(* an exception leaves main: the with blocks close the stream (what was   *)
(* written stays in the file) and remove the work directory               *)
Raise(e) ==
    /\ pc' = "failed"
    /\ failure' = e
    /\ tmp_cab' = Absent

(* lines 127-131 *)
Backup ==
    /\ pc = "backup"
    /\ bak' = IF no_backup THEN bak ELSE input
    /\ pc' = "decrypt_header"
    /\ UNCHANGED <<failure, input, tmp_cab, outside>>
    /\ UNCHANGED <<arg_vars, parse_vars, merge_vars, ghost_vars>>

(* lines 134-137 *)
DecryptHeader ==
    /\ pc = "decrypt_header"
    /\ offset' = OffsetAfterStruct(input.data, HdrStructOff)
    /\ IF StreamDecryptRaises(input.data, HdrStructOff, HdrDataSize)
       THEN /\ Raise("ValueError")
            /\ UNCHANGED <<input, cab_hdr_struct>>
       ELSE LET buf == stream_decrypt_with_struct(input.data, key, HdrStructOff, 0,
                                                  HdrDataSize)
            IN  /\ input' = File(buf)
                /\ cab_hdr_struct' = ParseHeader(ReadAt(buf, 0, HdrDataSize))
                /\ pc' = "check_magic"
                /\ UNCHANGED <<failure, tmp_cab>>
    /\ outside' = (outside \/ ~InRange(input.data, HdrStructOff, SizeofRc4ShaHeader)
                            \/ ~InRange(input.data, 0, HdrDataSize))
    /\ UNCHANGED <<bak, cipher, i, idx, byt, folders>>
    /\ UNCHANGED <<arg_vars, merge_vars, ghost_vars>>

(* line 138 *)
CheckMagic ==
    /\ pc = "check_magic"
    /\ IF MagicAccepted(cab_hdr_struct.magic)
       THEN pc' = "decrypt_folder_table" /\ UNCHANGED <<failure, tmp_cab>>
       ELSE Raise("InvalidKey")
    /\ UNCHANGED <<input, bak, outside>>
    /\ UNCHANGED <<arg_vars, parse_vars, merge_vars, ghost_vars>>

(* lines 142-143 *)
DecryptFolderTable ==
    /\ pc = "decrypt_folder_table"
    /\ offset' = OffsetAfterStruct(input.data, FolderStructOff)
    /\ LET size == FolderTableSize(cab_hdr_struct.cnt_folders)
       IN  /\ input' = File(stream_decrypt_with_struct(input.data, key, FolderStructOff,
                                                       FolderTableOff, size))
           /\ outside' = (outside \/ ~InRange(input.data, FolderTableOff, size))
    /\ pc' = "filename_cipher"
    /\ UNCHANGED <<failure, bak, tmp_cab>>
    /\ UNCHANGED <<cab_hdr_struct, cipher, i, idx, byt, folders>>
    /\ UNCHANGED <<arg_vars, merge_vars, ghost_vars>>

(* lines 146-152 *)
FilenameCipher ==
    /\ pc = "filename_cipher"
    /\ cipher' = FilenameCipherNew(input.data, key)
    /\ offset' = cab_hdr_struct.off_files
    /\ i' = 0
    /\ pc' = IF 0 < cab_hdr_struct.cnt_files THEN "entry_header" ELSE "parse_folders"
    /\ UNCHANGED <<failure, input, bak, tmp_cab, outside, cab_hdr_struct, idx, byt, folders>>
    /\ UNCHANGED <<arg_vars, merge_vars, ghost_vars>>

(* lines 154-160 *)
DecryptEntryHeader ==
    /\ pc = "entry_header"
    /\ LET data == ReadAt(input.data, offset, SizeofCabEntry)
       IN  /\ input' = File(WriteAt(input.data, offset,
                                    Rc4Decrypt(cipher.session, cipher.pos, data)))
           /\ cipher' = [cipher EXCEPT !.pos = @ + Len(data)]
           /\ tbl_log' = tbl_log \o [k \in 1..Len(data) |->
                                        <<offset + k - 1, cipher.pos + k - 1>>]
    /\ outside' = (outside \/ ~InRange(input.data, offset, SizeofCabEntry))
    /\ entries' = Append(entries, [start |-> offset, end |-> -1])
    /\ offset' = offset + SizeofCabEntry
    /\ idx' = 0
    /\ byt' = 0
    /\ pc' = "scan"
    /\ UNCHANGED <<failure, bak, tmp_cab, cab_hdr_struct, i, folders, regions>>
    /\ UNCHANGED <<arg_vars, merge_vars>>

(* lines 161-164: one turn of the filename loop *)
ScanFilenameByte ==
    /\ pc = "scan"
    /\ LET data == ReadAt(input.data, offset, 1)
       IN  IF data = <<>>
           THEN /\ Raise("IndexError")
                /\ outside' = TRUE
                /\ UNCHANGED <<input, parse_vars, ghost_vars>>
           ELSE LET dec == Rc4Decrypt(cipher.session, cipher.pos, data)
                IN  /\ input' = File(WriteAt(input.data, offset, dec))
                    /\ cipher' = [cipher EXCEPT !.pos = @ + 1]
                    /\ tbl_log' = Append(tbl_log, <<offset, cipher.pos>>)
                    /\ byt' = dec[1]
                    /\ offset' = offset + 1
                    /\ idx' = idx + 1
                    /\ pc' = IF ScanContinues(dec[1], idx + 1) THEN "scan" ELSE "write_ordinal"
                    /\ UNCHANGED <<failure, tmp_cab, outside, cab_hdr_struct, i, folders,
                                   entries, regions>>
    /\ UNCHANGED <<bak>>
    /\ UNCHANGED <<arg_vars, merge_vars>>

(* line 166, and the step of the for loop of line 152 *)
WriteOrdinal ==
    /\ pc = "write_ordinal"
    /\ input' = File(WriteAt(input.data, offset - OrdinalBack, OrdinalName(i)))
    /\ entries' = [entries EXCEPT ![Len(entries)].end = offset]
    /\ i' = i + 1
    /\ pc' = IF i + 1 < cab_hdr_struct.cnt_files THEN "entry_header" ELSE "parse_folders"
    /\ UNCHANGED <<failure, bak, tmp_cab, outside, offset, cab_hdr_struct, cipher, idx, byt,
                   folders, tbl_log, regions>>
    /\ UNCHANGED <<arg_vars, merge_vars>>

(* label of folder k (0-based): the offset of its descriptor *)
FolderLabel(k) == FolderTableOff + k * (SizeofCabFolder + XENON_DATA_SIZE)

(* lines 169-174 *)
ParseFolders ==
    /\ pc = "parse_folders"
    /\ LET n == cab_hdr_struct.cnt_folders
           bad == {k \in 0..(n - 1) : ~InRange(input.data, FolderLabel(k), SizeofCabFolder)}
       IN  IF bad # {}
           THEN LET k == CHOOSE a \in bad : \A b \in bad : a <= b
                IN  /\ Raise("ValueError")
                    /\ outside' = TRUE
                    /\ offset' = FolderLabel(k)
                                   + Len(ReadAt(input.data, FolderLabel(k), SizeofCabFolder))
                    \* line 173 has appended the descriptors read before it
                    /\ folders' = [j \in 1..k |-> U32(input.data, FolderLabel(j - 1))]
                    /\ i' = k
           ELSE /\ folders' = [k \in 1..n |-> U32(input.data, FolderLabel(k - 1))]
                /\ offset' = FolderLabel(n)
                /\ i' = 0
                /\ pc' = IF 0 < n THEN "decrypt_folder" ELSE "move_input"
                /\ UNCHANGED <<failure, tmp_cab, outside>>
    /\ UNCHANGED <<input, bak, cab_hdr_struct, cipher, idx, byt>>
    /\ UNCHANGED <<arg_vars, merge_vars, ghost_vars>>

(* lines 177-186: one turn of the folder loop *)
DecryptFolder ==
    /\ pc = "decrypt_folder"
    /\ LET start == folders[i + 1]
           size == FolderSize(folders, i, Len(input.data))
           rec == FolderLabel(i) + SizeofCabFolder
       IN  /\ regions' = Append(regions, [start |-> start, size |-> size])
           /\ outside' = (outside \/ ~InRange(input.data, start, size))
           /\ IF StreamDecryptRaises(input.data, rec, size)
              THEN /\ Raise("ValueError")
                   \* a refused read(size) leaves the cursor on the data offset
                   /\ offset' = IF OffsetAfterStruct(input.data, rec) < rec + SizeofRc4ShaHeader
                                 THEN OffsetAfterStruct(input.data, rec) ELSE start
                   /\ UNCHANGED <<input, i>>
              ELSE /\ input' = File(stream_decrypt_with_struct(input.data, key, rec, start, size))
                   /\ offset' = OffsetAfterStruct(input.data, rec)
                   /\ i' = i + 1
                   /\ pc' = IF i + 1 < cab_hdr_struct.cnt_folders
                            THEN "decrypt_folder" ELSE "move_input"
                   /\ UNCHANGED <<failure, tmp_cab>>
    /\ UNCHANGED <<bak, cab_hdr_struct, cipher, idx, byt, folders, tbl_log, entries>>
    /\ UNCHANGED <<arg_vars, merge_vars>>

(* lines 188-196 *)
MoveInput ==
    /\ pc = "move_input"
    /\ tmp_cab' = input
    /\ input' = Absent
    /\ pc' = "extract"
    /\ UNCHANGED <<failure, bak, outside>>
    /\ UNCHANGED <<arg_vars, parse_vars, merge_vars, ghost_vars>>

(* what the extractor leaves in the cache directory: one member per table *)
(* entry, and the order in which iterdir() lists them                     *)
Member(j, n) == [k \in 1..n |-> 16 * j + k]
Perms(n) == {f \in [1..n -> 1..n] : \A a, b \in 1..n : f[a] = f[b] => a = b}
Identity(n) == [k \in 1..n |-> k]
Reverse(n) == [k \in 1..n |-> n + 1 - k]

(* lines 200-204 *)
ExtractCab ==
    /\ pc = "extract"
    /\ \/ /\ Raise("ExtractionFailed")
          /\ UNCHANGED merge_vars
       \/ \E n \in 0..MaxMemberLen, l \in {Identity(cab_hdr_struct.cnt_files),
                                           Reverse(cab_hdr_struct.cnt_files)} :
            /\ cache' = [j \in 1..cab_hdr_struct.cnt_files |-> Member(j, n)]
            /\ listing' = l
            /\ done' = 0
            /\ fw' = <<>>
            /\ pc' = "merge"
            /\ UNCHANGED <<failure, tmp_cab, out>>
    /\ UNCHANGED <<input, bak, outside>>
    /\ UNCHANGED <<arg_vars, parse_vars, ghost_vars>>

(* lines 205-211: one member of the listing *)
MergeFile ==
    /\ pc = "merge"
    /\ done < Len(listing)
    /\ fw' = AppendChunks(fw, cache[MergeOrder(listing)[done + 1]])
    /\ done' = done + 1
    /\ UNCHANGED <<pc, failure, input, bak, tmp_cab, outside, cache, listing, out>>
    /\ UNCHANGED <<arg_vars, parse_vars, ghost_vars>>

WriteLive_Prepend ==
    /\ pc = "merge"
    /\ done = Len(listing)
    /\ fw' = LiveTag \o fw
    /\ pc' = "move_output"
    /\ UNCHANGED <<failure, input, bak, tmp_cab, outside, cache, listing, done, out>>
    /\ UNCHANGED <<arg_vars, parse_vars, ghost_vars>>

(* line 214 *)
WriteLive ==
    /\ pc = "merge"
    /\ done = Len(listing)
    /\ fw' = WriteAt(fw, 0, LiveTag)
    /\ pc' = "move_output"
    /\ UNCHANGED <<failure, input, bak, tmp_cab, outside, cache, listing, done, out>>
    /\ UNCHANGED <<arg_vars, parse_vars, ghost_vars>>

(* line 218, and the end of the work directory *)
MoveOutput ==
    /\ pc = "move_output"
    /\ out' = File(fw)
    /\ tmp_cab' = Absent
    /\ pc' = "done"
    /\ UNCHANGED <<failure, input, bak, outside, cache, listing, done, fw>>
    /\ UNCHANGED <<arg_vars, parse_vars, ghost_vars>>

Next ==
    \/ Backup
    \/ DecryptHeader
    \/ CheckMagic
    \/ DecryptFolderTable
    \/ FilenameCipher
    \/ DecryptEntryHeader
    \/ ScanFilenameByte
    \/ WriteOrdinal
    \/ ParseFolders
    \/ DecryptFolder
    \/ MoveInput
    \/ ExtractCab
    \/ MergeFile
    \/ WriteLive
    \/ MoveOutput

Spec == Init /\ [][Next]_vars

(* the reassembly alone, over every set of members and every listing      *)
InitMerge ==
    \E n \in 0..MaxFiles :
      \E lens \in [1..n -> 0..MaxMemberLen], l \in Perms(n) :
        /\ pc = "merge"
        /\ failure = "none"
        /\ key = 1
        /\ no_backup = TRUE
        /\ orig = <<>>
        /\ input = Absent
        /\ bak = Absent
        /\ tmp_cab = File(<<>>)
        /\ offset = 0
        /\ cab_hdr_struct = [NoHeader EXCEPT !.cnt_files = n]
        /\ cipher = [session |-> 0, pos |-> 0]
        /\ i = 0
        /\ idx = 0
        /\ byt = 0
        /\ folders = <<>>
        /\ cache = [j \in 1..n |-> Member(j, lens[j])]
        /\ listing = l
        /\ done = 0
        /\ fw = <<>>
        /\ out = Absent
        /\ tbl_log = <<>>
        /\ entries = <<>>
        /\ regions = <<>>
        /\ outside = FALSE

NextMerge ==
    \/ MergeFile
    \/ WriteLive
    \/ MoveOutput

SpecMerge == InitMerge /\ [][NextMerge]_vars

(* ------------------------------- claims ------------------------------- *)
AfterHeader == pc \notin {"backup", "decrypt_header"} /\ cab_hdr_struct # NoHeader
InTablePass == pc \in {"entry_header", "scan", "write_ordinal", "parse_folders"}
LastEntry == entries[Len(entries)]
NameStart(e) == e.start + SizeofCabEntry
(* the bytes between the fixed header of a traversed entry and its        *)
(* terminator                                                              *)
NameOf(e) == SubSeq(input.data, NameStart(e) + 1, e.end - 1)
(* the file-entry table lies behind the folder table, inside the file     *)
TableApart ==
    /\ FolderTableOff + FolderTableSize(cab_hdr_struct.cnt_folders) <= cab_hdr_struct.off_files
    /\ cab_hdr_struct.off_files <= Len(orig)
(* the byte at offset o as the filename cipher decrypts it *)
TableByte(o) ==
    Xor(orig[o + 1], KeyStream(cipher.session, ConfounderSize + (o - cab_hdr_struct.off_files)))

(* the 3-digit zero-padded decimal ordinal of n < 1000, in ASCII *)
OrdinalDigits(n) == <<48 + ((n \div 100) % 10), 48 + ((n \div 10) % 10), 48 + (n % 10)>>

(* C1: when the decrypted header's magic is neither 0x4D534346 nor        *)
(* 0x4643534D the run ends with InvalidKey, and nothing from offset 0x60  *)
(* on (folder table, file-entry table, folder data) has been decrypted or *)
(* modified: the magic check precedes all table processing.               *)
C1_InvalidKeyBeforeTables ==
    (AfterHeader /\ cab_hdr_struct.magic \notin AcceptedMagics) =>
        /\ pc = "check_magic" \/ (pc = "failed" /\ failure = "InvalidKey")
        /\ input.exists
        /\ Len(input.data) = Len(orig)
        /\ \A o \in HdrDataSize..(Len(orig) - 1) : input.data[o + 1] = orig[o + 1]
        /\ tbl_log = <<>> /\ entries = <<>> /\ regions = <<>> /\ folders = <<>>

C1_Witness ==
    /\ failure = "InvalidKey"
    /\ cab_hdr_struct.magic \notin AcceptedMagics
    /\ input.data # orig

(* C2: in every run that ends in a failure after header decryption has    *)
(* started, the file at the input path still exists and holds the         *)
(* original undecrypted bytes.                                             *)
C2_OriginalUntouchedOnFailure ==
    failure # "none" => (input.exists /\ input.data = orig)

(* C3: every read and write of the parser lies inside [0, length), an     *)
(* outside offset or size being detected before the access (the run never *)
(* ends in an index or value error of an access made outside the file).   *)
C3_AccessesInsideContainer ==
    /\ ~outside
    /\ failure \notin {"IndexError", "ValueError"}

(* C4: the table traversal handles exactly cnt_files entries in table     *)
(* order, each filename scan stops right after the first zero byte it     *)
(* decrypts, for names of every length, and the cursor then stands on the *)
(* first byte of the next entry.                                           *)
C4_ScanStopsAtFirstZero ==
    /\ pc = "write_ordinal" =>
          /\ byt = 0
          /\ input.data[offset] = 0
          /\ idx = offset - NameStart(LastEntry)
          /\ \A o \in NameStart(LastEntry)..(offset - 2) : input.data[o + 1] # 0
          /\ TableApart => \A o \in NameStart(LastEntry)..(offset - 1) :
                               input.data[o + 1] = TableByte(o)
    /\ (pc = "entry_header" /\ entries # <<>>) => offset = LastEntry.end
    /\ InTablePass =>
          /\ Len(entries) = (IF pc \in {"scan", "write_ordinal"} THEN i + 1 ELSE i)
          /\ \A e \in 1..Len(entries) :
                entries[e].start = (IF e = 1 THEN cab_hdr_struct.off_files
                                    ELSE entries[e - 1].end)
    /\ pc = "parse_folders" => Len(entries) = cab_hdr_struct.cnt_files

C4_Witness ==
    /\ pc = "parse_folders"
    /\ Len(entries) = 2
    /\ entries[1].end = NameStart(entries[1]) + 1
    /\ entries[2].end > NameStart(entries[2]) + 1

(* C5 as stated: after the table pass the filename of every entry i is    *)
(* the 3-digit zero-padded decimal ordinal of i, whatever the original    *)
(* name was.                                                               *)
C5_NamesAreOrdinals ==
    pc = "parse_folders" =>
        \A e \in 1..Len(entries) : NameOf(entries[e]) = OrdinalDigits(e - 1)

(* C6: the data region of folder i is [start_i, start_i + size_i); every  *)
(* size is non-negative and consecutive regions tile the data area up to  *)
(* the container length, without gap or overlap.                           *)
C6_FolderRegionsTile ==
    /\ \A k \in 1..Len(regions) :
          /\ regions[k].size >= 0
          /\ k > 1 => regions[k].start = regions[k - 1].start + regions[k - 1].size
    /\ (pc = "move_input" /\ regions # <<>>) =>
          regions[Len(regions)].start + regions[Len(regions)].size = Len(input.data)

(* C7 as stated: the reassembled output is as long as the members         *)
(* together, for totals below 4 bytes too, and starts with LIVE.          *)
C7_LengthIsSum ==
    pc = "done" =>
        /\ Len(out.data) = SumSeq([j \in 1..Len(cache) |-> Len(cache[j])])
        /\ SubSeq(out.data, 1, 4) = <<76, 73, 86, 69>>

(* C7 amended: the output starts with LIVE and is as long as the members  *)
(* together, or 4 bytes long when the members hold fewer than 4 bytes.    *)
C7_LengthIsSumOrFour ==
    pc = "done" =>
        /\ Len(out.data) = Max(4, SumSeq([j \in 1..Len(cache) |-> Len(cache[j])]))
        /\ SubSeq(out.data, 1, 4) = <<76, 73, 86, 69>>

C7_Witness ==
    /\ pc = "done"
    /\ Len(cache) = 2
    /\ Len(cache[1]) + Len(cache[2]) > 4
    /\ Len(out.data) = Len(cache[1]) + Len(cache[2])

(* C8: whatever order the directory listing has, the output is, after its *)
(* first 4 bytes, the concatenation of the members in ordinal order.      *)
C8_MergedInOrdinalOrder ==
    pc = "done" =>
        \A k \in 5..Len(out.data) : out.data[k] = Concat(cache)[k]

(* C9: the file-entry table is decrypted by one cipher derived once from  *)
(* the key record at 0x44: every byte from off_files on is decrypted once,*)
(* in increasing offset order, the byte at off_files + p with keystream   *)
(* position 8 + p, however the bytes split into headers and names.        *)
C9_OneKeystreamAcrossTable ==
    /\ \A k \in 1..Len(tbl_log) :
          tbl_log[k] = <<cab_hdr_struct.off_files + (k - 1), ConfounderSize + (k - 1)>>
    /\ InTablePass =>
          /\ cipher.pos = ConfounderSize + Len(tbl_log)
          /\ cipher.session = XeCryptHmacSha(key, ReadCksm(input.data, FileStructOff))
    /\ (pc = "parse_folders" /\ entries # <<>>) =>
          Len(tbl_log) = LastEntry.end - cab_hdr_struct.off_files

C9_Witness ==
    /\ pc = "parse_folders"
    /\ Len(entries) = 2
    /\ Len(tbl_log) > 2 * (SizeofCabEntry + 1)
    /\ entries[1].end - entries[1].start # entries[2].end - entries[2].start

(* C10: the ordinal write of entry i changes only filename characters of  *)
(* entry i: the fixed header and the terminator of the entry, every other *)
(* entry and every byte before off_files stay as they were.               *)
C10_OrdinalWriteFrame ==
    [][pc = "write_ordinal" =>
         \A o \in 0..(Len(input.data) - 1) :
             (o < NameStart(LastEntry) \/ o >= offset - 1) =>
                 input'.data[o + 1] = input.data[o + 1]]_vars

====
